---- MODULE Spec2Model ----
(***************************************************************************)
(* The MoMA gender-representation pipeline of finalproject.py: field       *)
(* normalisation, the creation-year parser, the left join of artworks to   *)
(* artists, the six share cuts and the geography cut.                      *)
(*                                                                         *)
(* Text is a sequence of one-character strings.  A table cell is a record  *)
(* with a tag: "nan" (pandas NaN), "none" (Python None), "str" (text, in   *)
(* field v) or "num" (an integer, in field v).                             *)
(***************************************************************************)
EXTENDS Integers, Sequences, FiniteSets, TLC

\* ------------------------------------------------------------------ cells
NaN == [tag |-> "nan"]
None == [tag |-> "none"]
Str(s) == [tag |-> "str", v |-> s]
Num(n) == [tag |-> "num", v |-> n]
\* pd.isna: NaN and None are both missing
isna(c) == c.tag \in {"nan", "none"}

\* ------------------------------------------------------------- characters
LowerLetters ==
    <<"a", "b", "c", "d", "e", "f", "g", "h", "i", "j", "k", "l", "m",
      "n", "o", "p", "q", "r", "s", "t", "u", "v", "w", "x", "y", "z">>
UpperLetters ==
    <<"A", "B", "C", "D", "E", "F", "G", "H", "I", "J", "K", "L", "M",
      "N", "O", "P", "Q", "R", "S", "T", "U", "V", "W", "X", "Y", "Z">>
Digits == <<"0", "1", "2", "3", "4", "5", "6", "7", "8", "9">>
\* U+FB01 (the ligature fi): a lowercase letter whose lowercase form is itself
\* and whose titlecase form is the two letters "Fi".
Ligature == "U+FB01"
\* U+2013 (the en dash of "1950-52" in the museum's dates): not a word character.
EnDash == "U+2013"

IndexOf(c, seq) == CHOOSE i \in 1..Len(seq) : seq[i] = c
IsIn(c, seq) == \E i \in 1..Len(seq) : seq[i] = c
IsLowerLetter(c) == IsIn(c, LowerLetters)
IsUpperLetter(c) == IsIn(c, UpperLetters)
IsCased(c) == IsLowerLetter(c) \/ IsUpperLetter(c) \/ c = Ligature
IsDigit(c) == IsIn(c, Digits)
IsSpace(c) == c = " "
\* a character of the regular-expression class \w
IsWord(c) == IsCased(c) \/ IsDigit(c) \/ c = "_"
DigitVal(c) == IndexOf(c, Digits) - 1

LowerChar(c) == IF IsUpperLetter(c) THEN LowerLetters[IndexOf(c, UpperLetters)] ELSE c
\* the titlecase form of a character, as text: one character, or two for the ligature
TitleChar(c) ==
    IF c = Ligature THEN <<"F", "i">>
    ELSE IF IsLowerLetter(c) THEN <<UpperLetters[IndexOf(c, LowerLetters)]>>
    ELSE <<c>>

\* ------------------------------------------------------------ str methods
\* str.lower()
Lower(s) == [i \in 1..Len(s) |-> LowerChar(s[i])]

RECURSIVE LStrip(_)
LStrip(s) == IF s # <<>> /\ IsSpace(Head(s)) THEN LStrip(Tail(s)) ELSE s
RECURSIVE RStrip(_)
RStrip(s) ==
    IF s # <<>> /\ IsSpace(s[Len(s)]) THEN RStrip(SubSeq(s, 1, Len(s) - 1)) ELSE s
\* str.strip()
Strip(s) == RStrip(LStrip(s))

\* str.startswith(p)
StartsWith(s, p) == Len(s) >= Len(p) /\ SubSeq(s, 1, Len(p)) = p
\* p in s
Contains(s, p) == \E i \in 1..(Len(s) - Len(p) + 1) : SubSeq(s, i, i + Len(p) - 1) = p

\* str.title(): a cased character that follows a cased character is lowercased,
\* any other cased character is titlecased, the rest is copied.
RECURSIVE TitleFrom(_, _, _)
TitleFrom(s, i, prevCased) ==
    IF i > Len(s) THEN <<>>
    ELSE IF IsCased(s[i])
         THEN (IF prevCased THEN <<LowerChar(s[i])>> ELSE TitleChar(s[i]))
              \o TitleFrom(s, i + 1, TRUE)
         ELSE <<s[i]>> \o TitleFrom(s, i + 1, FALSE)
Title(s) == TitleFrom(s, 1, FALSE)

\* str(x) of a cell
PyStr(x) ==
    CASE x.tag = "nan" -> <<"n", "a", "n">>
      [] x.tag = "none" -> <<"N", "o", "n", "e">>
      [] OTHER -> x.v

\* s.split(",")[0]
RECURSIVE SplitFirst(_)
SplitFirst(s) ==
    IF s = <<>> \/ Head(s) = "," THEN <<>> ELSE <<Head(s)>> \o SplitFirst(Tail(s))

\* ------------------------------------------------- Artist ID normalisation
\* artists["Artist ID"].astype(str).str.strip()
NormArtistId(x) == Strip(PyStr(x))
\* artworks["Artist ID"].astype(str).str.strip(), then .str.split(",").str[0].str.strip()
NormArtworkId(x) == Strip(SplitFirst(Strip(PyStr(x))))

\* ------------------------------------------------------------ norm_gender
Unknown == <<"U", "n", "k", "n", "o", "w", "n">>
Female == <<"F", "e", "m", "a", "l", "e">>
Male == <<"M", "a", "l", "e">>
NonBinary == <<"N", "o", "n", "-", "b", "i", "n", "a", "r", "y">>

UnknownWords ==
    { <<>>,
      <<"n", "a", "n">>,
      <<"n", "o", "n", "e">>,
      <<"u", "n", "k", "n", "o", "w", "n">>,
      <<"u", "n", "s", "p", "e", "c", "i", "f", "i", "e", "d">>,
      <<"n", "/", "a">>,
      <<"n", "u", "l", "l">> }

\* norm_gender without the .strip(): the input is only lowercased
norm_gender_unstripped(x) ==
    LET s == Lower(PyStr(x))
    IN  IF s \in UnknownWords THEN Unknown
        ELSE IF StartsWith(s, <<"f">>) THEN Female
        ELSE IF StartsWith(s, <<"m">>) THEN Male
        ELSE IF \/ Contains(s, <<"n", "o", "n">>)
                \/ Contains(s, <<"n", "b">>)
                \/ Contains(s, <<"b", "i", "n", "a", "r", "y">>)
             THEN NonBinary
        ELSE Title(s)

norm_gender(x) ==
    LET s == Lower(Strip(PyStr(x)))
    IN  IF s \in UnknownWords THEN Unknown
        ELSE IF StartsWith(s, <<"f">>) THEN Female
        ELSE IF StartsWith(s, <<"m">>) THEN Male
        ELSE IF \/ Contains(s, <<"n", "o", "n">>)
                \/ Contains(s, <<"n", "b">>)
                \/ Contains(s, <<"n", "o", "n", "-", "b">>)
                \/ Contains(s, <<"b", "i", "n", "a", "r", "y">>)
             THEN NonBinary
        ELSE Title(s)

\* ---------------------------------------------------- parse_creation_year
\* re.search(r"(\d{3})0s", s): the start of the leftmost match, 0 when none
DecadeAt(s, i) ==
    /\ i + 4 <= Len(s)
    /\ IsDigit(s[i]) /\ IsDigit(s[i + 1]) /\ IsDigit(s[i + 2])
    /\ s[i + 3] = "0"
    /\ s[i + 4] = "s"
\* re.match in place of re.search: the decade is looked for at the start only
SearchDecade_match(s, i) == IF DecadeAt(s, i) THEN i ELSE 0

RECURSIVE SearchDecade(_, _)
SearchDecade(s, i) ==
    IF i + 4 > Len(s) THEN 0
    ELSE IF DecadeAt(s, i) THEN i
    ELSE SearchDecade(s, i + 1)

\* int() of a run of digits
RECURSIVE IntOf(_)
IntOf(ds) ==
    IF ds = <<>> THEN 0 ELSE 10 * IntOf(SubSeq(ds, 1, Len(ds) - 1)) + DigitVal(ds[Len(ds)])

\* \b at the gap before position i (between s[i-1] and s[i])
WordBoundary(s, i) ==
    LET before == i > 1 /\ IsWord(s[i - 1])
        after == i <= Len(s) /\ IsWord(s[i])
    IN  before # after
\* \b(1[0-9]{3}|20[0-9]{2})\b matches at position i
YearAt(s, i) ==
    /\ i + 3 <= Len(s)
    /\ WordBoundary(s, i)
    /\ \/ s[i] = "1" /\ IsDigit(s[i + 1])
       \/ s[i] = "2" /\ s[i + 1] = "0"
    /\ IsDigit(s[i + 2]) /\ IsDigit(s[i + 3])
    /\ WordBoundary(s, i + 4)
\* re.findall: the matches left to right, the scan resuming after each match
RECURSIVE FindYears(_, _)
FindYears(s, i) ==
    IF i + 3 > Len(s) THEN <<>>
    ELSE IF YearAt(s, i) THEN <<IntOf(SubSeq(s, i, i + 3))>> \o FindYears(s, i + 4)
    ELSE FindYears(s, i + 1)

RECURSIVE SumSeq(_)
SumSeq(q) == IF q = <<>> THEN 0 ELSE Head(q) + SumSeq(Tail(q))

\* int(round(np.mean(years))): the quotient total/n rounded half to even
RoundMean(total, n) ==
    LET q == total \div n
        r == total % n
    IN  IF 2 * r < n THEN q
        ELSE IF 2 * r > n THEN q + 1
        ELSE IF q % 2 = 0 THEN q ELSE q + 1

parse_creation_year(txt) ==
    IF isna(txt) THEN NaN
    ELSE LET s == Strip(Lower(PyStr(txt)))
             m_decade == SearchDecade(s, 1)
             years == FindYears(s, 1)
         IN  IF m_decade # 0 THEN Num(IntOf(SubSeq(s, m_decade, m_decade + 2) \o <<"0">>))
             ELSE IF years = <<>> THEN NaN
             ELSE Num(RoundMean(SumSeq(years), Len(years)))

\* ------------------------------------------------------------- to_numeric
IsDigits(s) == s # <<>> /\ \A i \in 1..Len(s) : IsDigit(s[i])
\* pd.to_numeric(column, errors="coerce") on one cell
to_numeric(c) ==
    CASE c.tag = "num" -> c
      [] c.tag = "str" /\ IsDigits(Strip(c.v)) -> Num(IntOf(Strip(c.v)))
      [] OTHER -> NaN

\* pd.to_datetime(column, errors="coerce").dt.year on one cell: a date cell
\* [tag |-> "date", year, month] gives its year, anything else is NaT
dt_year(c) == IF c.tag = "date" THEN Num(c.year) ELSE NaN

\* ------------------------------------------------------------------ merge
\* the artist columns an unmatched artwork gets
Unmatched(l) ==
    [ArtistID |-> l.ArtistID, AcquisitionDate |-> l.AcquisitionDate,
     Date |-> l.Date, Department |-> l.Department,
     Gender |-> NaN, BirthYear |-> NaN, Nationality |-> NaN,
     year_acq |-> NaN, year_created |-> NaN]
Joined(l, r) ==
    [Unmatched(l) EXCEPT !.Gender = r.Gender, !.BirthYear = r.BirthYear,
                         !.Nationality = r.Nationality]

\* artworks.merge(artists[...], on="Artist ID", how="left"): the left rows in
\* order, each once per matching right row (in the right table's order), or
\* once with missing artist columns when no right row matches
RECURSIVE merge_left(_, _)
merge_left(left, right) ==
    IF left = <<>> THEN <<>>
    ELSE LET l == Head(left)
             ms == SelectSeq(right, LAMBDA r : r.ArtistID = l.ArtistID)
         IN  (IF ms = <<>> THEN <<Unmatched(l)>>
              ELSE [i \in 1..Len(ms) |-> Joined(l, ms[i])])
             \o merge_left(Tail(left), right)

\* ------------------------------------------------- dropna, drop_duplicates
\* Columns are named by strings, as in pandas: r[c] is the cell of row r in column c.
\* DataFrame.dropna(subset=cols)
dropna(rows, subset) ==
    SelectSeq(rows, LAMBDA r : \A k \in 1..Len(subset) : ~isna(r[subset[k]]))

\* DataFrame.drop_duplicates(cols): the first row of each value of cols is kept
RECURSIVE DropDupFrom(_, _, _)
DropDupFrom(rows, cols, seen) ==
    IF rows = <<>> THEN <<>>
    ELSE LET r == Head(rows)
             k == [c \in 1..Len(cols) |-> r[cols[c]]]
         IN  IF k \in seen THEN DropDupFrom(Tail(rows), cols, seen)
             ELSE <<r>> \o DropDupFrom(Tail(rows), cols, seen \cup {k})
drop_duplicates(rows, cols) == DropDupFrom(rows, cols, {})

\* ---------------------------------------------------------- the share cut
RECURSIVE SumCount(_)
SumCount(S) ==
    IF S = {} THEN 0
    ELSE LET x == CHOOSE y \in S : TRUE IN x.count + SumCount(S \ {x})

\* the values of a row in the columns by
KeyOf(r, by) == [c \in 1..Len(by) |-> r[by[c]].v]

\* groupby(by + ["Gender"]).size().reset_index(name="count"): one row per
\* (key, Gender) observed among the rows where no grouping column is missing
group_size(rows, by) ==
    LET valid == dropna(rows, by \o <<"Gender">>)
        groups == {<<KeyOf(valid[i], by), valid[i].Gender.v>> : i \in 1..Len(valid)}
    IN  {[key |-> g[1], Gender |-> g[2],
          count |-> Cardinality({i \in 1..Len(valid) :
                                   /\ KeyOf(valid[i], by) = g[1]
                                   /\ valid[i].Gender.v = g[2]})] : g \in groups}

\* the sum of the whole table in place of the sum of the row's key
total_of_table(tbl, row) == SumCount(tbl)

\* table.groupby(key)["count"].transform("sum")
total_of(tbl, row) == SumCount({x \in tbl : x.key = row.key})

\* count / total, kept as the fraction it is
Divide(a, b) == [num |-> a, den |-> b]

\* the three statements every cut ends with: size, total, share
share_cut(rows, by) ==
    LET sized == group_size(rows, by)
    IN  {[key |-> x.key, Gender |-> x.Gender, count |-> x.count,
          total |-> total_of(sized, x),
          share |-> Divide(x.count, total_of(sized, x))] : x \in sized}

\* df_acq_unique[Gender == "Female"].groupby("Nationality")["Artist ID"].nunique()
female_by_nationality(rows) ==
    LET fem == SelectSeq(rows, LAMBDA r : r.Gender = Str(Female) /\ ~isna(r.Nationality))
        nats == {fem[i].Nationality.v : i \in 1..Len(fem)}
    IN  {[Nationality |-> n,
          female_artists |-> Cardinality({fem[i].ArtistID : i \in
                                            {j \in 1..Len(fem) : fem[j].Nationality.v = n}})]
         : n \in nats}

\* ================================================================== state
VARIABLES
    pc,                 \* the statement group the script is about to run
    ARTISTS_CSV,        \* artists.csv as read: a sequence of rows
    ARTWORKS_CSV,       \* artworks.csv as read
    artists,            \* the artists DataFrame
    artworks,           \* the artworks DataFrame
    df,                 \* the joined DataFrame
    df_acq_unique,      \* the de-duplicated acquisition records
    gender_by_year_acq,
    gender_by_dept_acq,
    gender_by_birth_year,
    gender_by_birth_decade,
    gender_by_creation_year_artworks,
    gender_by_creation_year_artists,
    female_geo,
    arg,                \* the argument of a direct call of a function
    ret                 \* and what the call returned

tables == <<ARTISTS_CSV, ARTWORKS_CSV, artists, artworks, df, df_acq_unique>>
cuts == <<gender_by_year_acq, gender_by_dept_acq, gender_by_birth_year,
          gender_by_birth_decade, gender_by_creation_year_artworks,
          gender_by_creation_year_artists, female_geo>>
vars == <<pc, tables, cuts, arg, ret>>

\* ------------------------------------------------------------- the bounds
MaxArtists == 2
MaxArtworks == 2
MaxGenderParts == 3
MaxDateParts == 3

\* the texts made of at most n of the fragments
RECURSIVE Texts(_, _)
Texts(frags, n) ==
    IF n = 0 THEN {<<>>}
    ELSE LET T == Texts(frags, n - 1) IN T \cup {t \o f : t \in T, f \in frags}

\* the tables of at most n rows
TablesOf(rowset, n) == UNION {[1..k -> rowset] : k \in 0..n}

\* -------------------------------------------------------- the input values
Id1 == Str(<<"1">>)
Id2 == Str(<<"2">>)
\* identifiers as they occur in the files: padded, and lists of several artists
RawIds == {Id1, Id2, Str(<<" ", "1", " ">>), Str(<<"1", ",", " ", "2">>), NaN}
RawGenders == {Str(<<"F">>), Str(<<"m", "a", "l", "e">>)}
RawBirthYears == {NaN, Num(1950), Num(1955), Num(1961), Str(<<"n", "/", "a">>)}
American == Str(<<"U", "S">>)
French == Str(<<"F", "R">>)
Nationalities == {NaN, American, French}
AcqDate(y, m) == [tag |-> "date", year |-> y, month |-> m]
AcqDates == {NaN, AcqDate(1990, 1), AcqDate(1991, 1)}
Painting == Str(<<"P">>)
Drawings == Str(<<"D">>)
Departments == {NaN, Painting, Drawings}
RawDates ==
    {NaN,
     Str(<<"1", "9", "9", "0", "s">>),
     Str(<<"c", ".", " ", "1", "9", "5", "0">>),
     Str(<<"1", "9", "5", "0", EnDash, "1", "9", "5", "2">>),
     Str(<<"u", "n", "k", "n", "o", "w", "n">>)}

ArtistRows(ids, genders, births, nats) ==
    [ArtistID : ids, Gender : genders, BirthYear : births, Nationality : nats]
ArtworkRows(ids, acqs, dates, depts) ==
    [ArtistID : ids, AcquisitionDate : acqs, Date : dates, Department : depts]

\* ------------------------------------------------------------------- Init
Start(a, w) ==
    /\ pc = "ids"
    /\ ARTISTS_CSV = a /\ ARTWORKS_CSV = w
    /\ artists = a /\ artworks = w
    /\ df = <<>> /\ df_acq_unique = <<>>
    /\ gender_by_year_acq = {} /\ gender_by_dept_acq = {}
    /\ gender_by_birth_year = {} /\ gender_by_birth_decade = {}
    /\ gender_by_creation_year_artworks = {} /\ gender_by_creation_year_artists = {}
    /\ female_geo = {}
    /\ arg = NaN /\ ret = NaN

\* files that differ in the columns the acquisition cuts read
InitAcq ==
    \E a \in TablesOf(ArtistRows({Id1, Id2}, RawGenders, {NaN}, {NaN}), MaxArtists),
       w \in TablesOf(ArtworkRows({Id1, Id2}, AcqDates, {NaN}, Departments), MaxArtworks) :
        Start(a, w)
\* files that differ in the columns the birth cuts read
InitBirth ==
    \E a \in TablesOf(ArtistRows({Id1, Id2}, RawGenders, RawBirthYears, {NaN}), MaxArtists),
       w \in TablesOf(ArtworkRows({Id1}, {AcqDate(1990, 1)}, {NaN}, {Painting}), MaxArtworks) :
        Start(a, w)
\* files that differ in the columns the creation-year cuts read
InitCreation ==
    \E a \in TablesOf(ArtistRows({Id1, Id2}, RawGenders, {NaN}, {NaN}), MaxArtists),
       w \in TablesOf(ArtworkRows({Id1, Id2}, {NaN}, RawDates, {NaN}), MaxArtworks) :
        Start(a, w)
\* files that differ in the spelling of the identifiers
InitJoin ==
    \E a \in TablesOf(ArtistRows(RawIds, {Str(<<"F">>)}, {NaN}, {NaN}), MaxArtists),
       w \in TablesOf(ArtworkRows(RawIds, {AcqDate(1990, 1)}, {NaN}, {Painting}), MaxArtworks) :
        Start(a, w)
\* files that differ in the columns the geography cut reads
InitGeo ==
    \E a \in TablesOf(ArtistRows({Id1, Id2}, RawGenders, {NaN}, Nationalities), MaxArtists),
       w \in TablesOf(ArtworkRows({Id1, Id2}, {NaN, AcqDate(1990, 1)}, {NaN},
                                  {NaN, Painting}), MaxArtworks) :
        Start(a, w)

\* files in which every column is present
InitFull ==
    \E a \in TablesOf(ArtistRows({Id1, Id2}, RawGenders, {Num(1950)}, {American}), MaxArtists),
       w \in TablesOf(ArtworkRows({Id1, Id2}, {AcqDate(1990, 1), AcqDate(1990, 6)},
                                  {Str(<<"1", "9", "9", "0", "s">>)}, {Painting}), MaxArtworks) :
        Start(a, w)

Init == InitAcq \/ InitBirth \/ InitCreation \/ InitFull

\* ---------------------------------------------------------------- actions
\* lines 19-22
artists_ids(t) == [i \in 1..Len(t) |-> [t[i] EXCEPT !.ArtistID = Str(NormArtistId(@))]]
artworks_ids(t) == [i \in 1..Len(t) |-> [t[i] EXCEPT !.ArtistID = Str(NormArtworkId(@))]]
NormalizeIds ==
    /\ pc = "ids"
    /\ artists' = artists_ids(artists)
    /\ artworks' = artworks_ids(artworks)
    /\ pc' = "artists"
    /\ UNCHANGED <<ARTISTS_CSV, ARTWORKS_CSV, df, df_acq_unique, cuts, arg, ret>>

\* lines 40-46
artists_fields(t) ==
    [i \in 1..Len(t) |-> [t[i] EXCEPT !.Gender = Str(norm_gender(@)),
                                      !.BirthYear = to_numeric(@)]]
NormalizeArtists ==
    /\ pc = "artists"
    /\ artists' = artists_fields(artists)
    /\ pc' = "merge"
    /\ UNCHANGED <<ARTISTS_CSV, ARTWORKS_CSV, artworks, df, df_acq_unique, cuts, arg, ret>>

\* lines 49-57
with_year_acq(t) == [i \in 1..Len(t) |-> [t[i] EXCEPT !.year_acq = dt_year(t[i].AcquisitionDate)]]
Merge ==
    /\ pc = "merge"
    /\ df' = with_year_acq(merge_left(artworks, artists))
    /\ pc' = "acq_year"
    /\ UNCHANGED <<ARTISTS_CSV, ARTWORKS_CSV, artists, artworks, df_acq_unique, cuts, arg, ret>>

\* the acquisition records without the drop_duplicates
acq_unique_every_artwork(d) == dropna(d, <<"year_acq">>)

\* lines 61-63
acq_unique(d) == drop_duplicates(dropna(d, <<"year_acq">>), <<"ArtistID", "year_acq">>)
\* lines 66-75
by_year_acq(u) == share_cut(u, <<"year_acq">>)
AcqByYear ==
    /\ pc = "acq_year"
    /\ df_acq_unique' = acq_unique(df)
    /\ gender_by_year_acq' = by_year_acq(df_acq_unique')
    /\ pc' = "acq_dept"
    /\ UNCHANGED <<ARTISTS_CSV, ARTWORKS_CSV, artists, artworks, df, gender_by_dept_acq,
                   gender_by_birth_year, gender_by_birth_decade,
                   gender_by_creation_year_artworks, gender_by_creation_year_artists,
                   female_geo, arg, ret>>

\* line 78
with_department(u) == dropna(u, <<"Department">>)
\* lines 79-88
by_dept_acq(u) == share_cut(u, <<"year_acq", "Department">>)
AcqByDept ==
    /\ pc = "acq_dept"
    /\ df_acq_unique' = with_department(df_acq_unique)
    /\ gender_by_dept_acq' = by_dept_acq(df_acq_unique')
    /\ pc' = "birth"
    /\ UNCHANGED <<ARTISTS_CSV, ARTWORKS_CSV, artists, artworks, df, gender_by_year_acq,
                   gender_by_birth_year, gender_by_birth_decade,
                   gender_by_creation_year_artworks, gender_by_creation_year_artists,
                   female_geo, arg, ret>>

\* line 92
artists_birth(t) == dropna(t, <<"BirthYear">>)
\* lines 93-104
by_birth_year(t) == share_cut(t, <<"BirthYear">>)
\* lines 107-116
with_birth_decade(t) ==
    [i \in 1..Len(t) |-> [birth_decade |-> Num((t[i].BirthYear.v \div 10) * 10)] @@ t[i]]
by_birth_decade(t) == share_cut(with_birth_decade(t), <<"birth_decade">>)
BirthCuts ==
    /\ pc = "birth"
    /\ gender_by_birth_year' = by_birth_year(artists_birth(artists))
    /\ gender_by_birth_decade' = by_birth_decade(artists_birth(artists))
    /\ pc' = "creation"
    /\ UNCHANGED <<tables, gender_by_year_acq, gender_by_dept_acq,
                   gender_by_creation_year_artworks, gender_by_creation_year_artists,
                   female_geo, arg, ret>>

\* lines 140-142
with_year_created(t) ==
    [i \in 1..Len(t) |-> [t[i] EXCEPT !.year_created = parse_creation_year(t[i].Date)]]
\* lines 146-159
by_creation_year_artworks(d) == share_cut(dropna(d, <<"year_created">>), <<"year_created">>)
\* lines 162-164
created_unique(d) == drop_duplicates(dropna(d, <<"year_created">>), <<"ArtistID", "year_created">>)
\* lines 165-176
by_creation_year_artists(d) == share_cut(created_unique(d), <<"year_created">>)
CreationCuts ==
    /\ pc = "creation"
    /\ df' = with_year_created(df)
    /\ gender_by_creation_year_artworks' = by_creation_year_artworks(df')
    /\ gender_by_creation_year_artists' = by_creation_year_artists(df')
    /\ pc' = "geo"
    /\ UNCHANGED <<ARTISTS_CSV, ARTWORKS_CSV, artists, artworks, df_acq_unique,
                   gender_by_year_acq, gender_by_dept_acq, gender_by_birth_year,
                   gender_by_birth_decade, female_geo, arg, ret>>

\* lines 179-184, and the export, which changes no value
FemaleGeo ==
    /\ pc = "geo"
    /\ female_geo' = female_by_nationality(df_acq_unique)
    /\ pc' = "done"
    /\ UNCHANGED <<tables, gender_by_year_acq, gender_by_dept_acq, gender_by_birth_year,
                   gender_by_birth_decade, gender_by_creation_year_artworks,
                   gender_by_creation_year_artists, arg, ret>>

Next ==
    \/ NormalizeIds
    \/ NormalizeArtists
    \/ Merge
    \/ AcqByYear
    \/ AcqByDept
    \/ BirthCuts
    \/ CreationCuts
    \/ FemaleGeo

Spec == Init /\ [][Next]_vars
SpecJoin == InitJoin /\ [][Next]_vars
SpecGeo == InitGeo /\ [][Next]_vars

\* ================================================= direct calls of functions
GenderFragments ==
    { <<"F">>, <<"M">>, <<"m", "a", "l", "e">>, <<"n", "o", "n">>, <<"n", "b">>,
      <<"b", "i", "n", "a", "r", "y">>, <<"-">>, <<" ">>, <<"O", "t", "h", "e", "r">>,
      <<"x">>, <<"n", "/", "a">>, <<"u", "n", "k", "n", "o", "w", "n">>, <<Ligature>> }
GenderInputs == {NaN, None} \cup {Str(t) : t \in Texts(GenderFragments, MaxGenderParts)}

DateFragments ==
    { <<"1", "9", "5", "0">>, <<"1", "9", "5", "1">>, <<"1", "9", "5", "2">>,
      <<"1", "9", "9", "0">>, <<"2", "0", "9", "9">>, <<"2", "1", "0", "0">>,
      <<"0">>, <<"9">>, <<"s">>, <<"S">>, <<" ">>, <<EnDash>>, <<"c", ".">>, <<"x">>,
      <<"u", "n", "k", "n", "o", "w", "n">> }
DateInputs == {NaN} \cup {Str(t) : t \in Texts(DateFragments, MaxDateParts)}

InitCall(x) ==
    /\ pc = "call"
    /\ ARTISTS_CSV = <<>> /\ ARTWORKS_CSV = <<>>
    /\ artists = <<>> /\ artworks = <<>>
    /\ df = <<>> /\ df_acq_unique = <<>>
    /\ gender_by_year_acq = {} /\ gender_by_dept_acq = {}
    /\ gender_by_birth_year = {} /\ gender_by_birth_decade = {}
    /\ gender_by_creation_year_artworks = {} /\ gender_by_creation_year_artists = {}
    /\ female_geo = {}
    /\ arg = x /\ ret = NaN

InitGender == \E x \in GenderInputs : InitCall(x)
InitParse == \E x \in DateInputs : InitCall(x)

\* norm_gender(arg)
CallNormGender ==
    /\ pc = "call"
    /\ ret' = Str(norm_gender(arg))
    /\ pc' = "returned"
    /\ UNCHANGED <<tables, cuts, arg>>

\* parse_creation_year(arg)
CallParse ==
    /\ pc = "call"
    /\ ret' = parse_creation_year(arg)
    /\ pc' = "returned"
    /\ UNCHANGED <<tables, cuts, arg>>

SpecGender == InitGender /\ [][CallNormGender]_vars
SpecParse == InitParse /\ [][CallParse]_vars

\* ===================================================================== C6
DigitSet == {"0", "1", "2", "3", "4", "5", "6", "7", "8", "9"}
\* where the text has three digits followed by "0s"
DecadeStarts(s) ==
    {i \in 1..(Len(s) - 4) :
        /\ \A k \in 0..2 : s[i + k] \in DigitSet
        /\ s[i + 3] = "0" /\ s[i + 4] = "s"}
\* where the text has a whole token of four digits that is a year of 1000..2099
YearTokens(s) ==
    {i \in 1..(Len(s) - 3) :
        /\ i = 1 \/ ~IsWord(s[i - 1])
        /\ i + 4 > Len(s) \/ ~IsWord(s[i + 4])
        /\ \A k \in 0..3 : s[i + k] \in DigitSet
        /\ IntOf(SubSeq(s, i, i + 3)) \in 1000..2099}
RECURSIVE SumYearsAt(_, _)
SumYearsAt(s, P) ==
    IF P = {} THEN 0
    ELSE LET i == CHOOSE j \in P : TRUE
         IN  IntOf(SubSeq(s, i, i + 3)) + SumYearsAt(s, P \ {i})
Min(S) == CHOOSE m \in S : \A x \in S : m <= x
Abs(n) == IF n < 0 THEN -n ELSE n

ParseExamples ==
    /\ arg = Str(<<"1", "9", "9", "0", "s">>) => ret = Num(1990)
    /\ arg = Str(<<"c", ".", " ", "1", "9", "5", "0">>) => ret = Num(1950)
    /\ arg = Str(<<"1", "9", "5", "0", EnDash, "1", "9", "5", "2">>) => ret = Num(1951)
    /\ arg = Str(<<"u", "n", "k", "n", "o", "w", "n">>) => ret = NaN
    /\ arg = Str(<<>>) => ret = NaN

HasSub(s, p) == \E i \in 1..Len(s) : i + Len(p) - 1 <= Len(s) /\ SubSeq(s, i, i + Len(p) - 1) = p

GenderRules ==
    LET raw == Strip(PyStr(arg))
        s == Lower(raw)
    IN  IF s \in UnknownWords THEN ret.v = Unknown
        ELSE IF s[1] = "f" THEN ret.v = Female
        ELSE IF s[1] = "m" THEN ret.v = Male
        ELSE IF \/ HasSub(s, <<"n", "o", "n">>)
                \/ HasSub(s, <<"n", "b">>)
                \/ HasSub(s, <<"b", "i", "n", "a", "r", "y">>)
             THEN ret.v = NonBinary
        ELSE ret.v = Title(raw)

GenderExamples ==
    /\ arg = Str(<<"F">>) => ret.v = Female
    /\ arg = Str(<<"m", "a", "l", "e">>) => ret.v = Male
    /\ arg = Str(<<"n", "o", "n", "-", "b", "i", "n", "a", "r", "y">>) => ret.v = NonBinary
    /\ arg = Str(<<>>) => ret.v = Unknown
    /\ arg = None => ret.v = Unknown
    /\ arg = NaN => ret.v = Unknown
    /\ arg = Str(<<"O", "t", "h", "e", "r">>) => ret.v = <<"O", "t", "h", "e", "r">>

GenderVocabulary == ret.v \in {Female, Male, NonBinary, Unknown} \/ Title(ret.v) = ret.v

\* the text is ASCII: it has none of the model's two characters beyond ASCII
IsAscii(s) == \A i \in 1..Len(s) : s[i] \notin {Ligature, EnDash}

\* C7 as stated: norm_gender returns on every input; it applies its rules in the
\* fixed order on the trimmed, lowercased input; the result is in the
\* vocabulary; and norm_gender of the result is the result.
C7_NormGenderAsStated ==
    pc = "returned" =>
        /\ GenderRules /\ GenderExamples /\ GenderVocabulary
        /\ norm_gender(ret) = ret.v

\* C7 as amended: the same, with norm_gender of the result being the result
\* for every ASCII input (and for an absent one).
C7_NormGenderAmended ==
    pc = "returned" =>
        /\ GenderRules /\ GenderExamples /\ GenderVocabulary
        /\ IsAscii(PyStr(arg)) => norm_gender(ret) = ret.v

\* a free-text value has been title-cased and is its own normal form
C7_Witness ==
    /\ pc = "returned"
    /\ arg = Str(<<" ", "x", "O", "t", "h", "e", "r">>)
    /\ ret.v = <<"X", "o", "t", "h", "e", "r">>
    /\ norm_gender(ret) = ret.v

\* ========================================================= the pipeline's claims
AfterIds == {"artists", "merge", "acq_year", "acq_dept", "birth", "creation", "geo", "done"}
AfterMerge == {"acq_year", "acq_dept", "birth", "creation", "geo", "done"}
AfterAcqDept == {"birth", "creation", "geo", "done"}
AfterBirth == {"creation", "geo", "done"}

Rows(t) == 1..Len(t)
\* the identifiers of the artists table, and the first record of each
ArtistIds == {artists[i].ArtistID : i \in Rows(artists)}
FirstRecord(A) == artists[Min({i \in Rows(artists) : artists[i].ArtistID = A})]
GenderOf(A) == FirstRecord(A).Gender.v
\* the artworks of artist A acquired in year y
AcquiredIn(A, y) ==
    {j \in Rows(artworks) :
        /\ artworks[j].ArtistID = A
        /\ artworks[j].AcquisitionDate.tag = "date"
        /\ artworks[j].AcquisitionDate.year = y}
AcqYears ==
    {artworks[j].AcquisitionDate.year :
        j \in {k \in Rows(artworks) : artworks[k].AcquisitionDate.tag = "date"}}
Genders == {artists[i].Gender.v : i \in Rows(artists)}
\* the count a cut shows at (key, gender): 0 when it has no such row
RowsAt(tbl, k, g) == {x \in tbl : x.key = <<k>> /\ x.Gender = g}
CountAt(tbl, k, g) == SumCount(RowsAt(tbl, k, g))
TotalAt(tbl, k) == SumCount({x \in tbl : x.key = <<k>>})

\* ===================================================================== C1
\* the spec's end-to-end scenario: one Female artist, two artworks of 1990
OneArtistTwoWorks ==
    /\ Len(ARTISTS_CSV) = 1 /\ Len(ARTWORKS_CSV) = 2
    /\ ARTISTS_CSV[1].ArtistID = Id1 /\ ARTISTS_CSV[1].Gender = Str(<<"F">>)
    /\ \A j \in 1..2 : /\ ARTWORKS_CSV[j].ArtistID = Id1
                       /\ ARTWORKS_CSV[j].AcquisitionDate.tag = "date"
                       /\ ARTWORKS_CSV[j].AcquisitionDate.year = 1990

\* C1: when the script ends, in gender_by_year_acq the count of every (year, gender) is the number of
\* artists of that gender (the gender of an identifier's first record) with at
\* least one artwork acquired in that year: an artist with N >= 1 artworks of
\* the year counts once, and not at all in a year without an artwork of theirs.
\* One Female artist with two artworks of 1990 gives the one row
\* (1990, Female, count 1, total 1, share 1/1).
C1_OncePerArtistAndYear ==
    pc = "done" =>
        /\ \A y \in AcqYears, g \in Genders :
              /\ Cardinality(RowsAt(gender_by_year_acq, y, g)) <= 1
              /\ CountAt(gender_by_year_acq, y, g) =
                    Cardinality({A \in ArtistIds : GenderOf(A) = g /\ AcquiredIn(A, y) # {}})
        /\ \A x \in gender_by_year_acq : x.key[1] \in AcqYears /\ x.Gender \in Genders
        /\ OneArtistTwoWorks =>
              gender_by_year_acq =
                  {[key |-> <<1990>>, Gender |-> Female, count |-> 1, total |-> 1,
                    share |-> [num |-> 1, den |-> 1]]}

\* an artist with two artworks of one year has been counted, once
C1_Witness ==
    /\ pc = "done"
    /\ \E A \in ArtistIds, y \in AcqYears :
          /\ \E j, k \in AcquiredIn(A, y) : artworks[j].AcquisitionDate # artworks[k].AcquisitionDate
          /\ CountAt(gender_by_year_acq, y, GenderOf(A)) = 1

\* ===================================================================== C2
ShareCuts ==
    <<gender_by_year_acq, gender_by_dept_acq, gender_by_birth_year, gender_by_birth_decade,
      gender_by_creation_year_artworks, gender_by_creation_year_artists>>

\* fractions: their sum, and being 1
RECURSIVE SumShares(_)
SumShares(S) ==
    IF S = {} THEN [num |-> 0, den |-> 1]
    ELSE LET x == CHOOSE y \in S : TRUE
             rest == SumShares(S \ {x})
         IN  [num |-> x.share.num * rest.den + rest.num * x.share.den,
              den |-> x.share.den * rest.den]

\* C2: when the script ends, in each of the six share cuts every row has an integer count >= 1, its
\* total is the sum of the counts of the rows of its key, so that
\* 1 <= count <= total; its share is count/total with total # 0, between 0 and
\* 1; and the shares of the rows of one key sum to 1.
C2_SharesOfAKeySumToOne ==
    pc = "done" => \A c \in 1..Len(ShareCuts) : \A x \in ShareCuts[c] :
        /\ x.count \in Nat /\ x.count >= 1
        /\ x.total = SumCount({z \in ShareCuts[c] : z.key = x.key})
        /\ x.count <= x.total
        /\ x.share.den # 0
        /\ x.share.num * x.total = x.count * x.share.den
        /\ 0 <= x.share.num /\ x.share.num <= x.share.den
        /\ LET sum == SumShares({z \in ShareCuts[c] : z.key = x.key})
           IN  sum.den # 0 /\ sum.num = sum.den

\* every one of the six cuts has a key shared by rows of two genders
C2_Witness ==
    /\ pc = "done"
    /\ \A c \in 1..Len(ShareCuts) : \E x \in ShareCuts[c] : x.count < x.total

\* ===================================================================== C3
\* C3: the joined table has one row per artwork, whatever the artists table
\* is, and an artwork without a matching artist has no Gender, Birth Year or
\* Nationality.
C3_JoinKeepsEachArtworkOnce ==
    pc \in AfterMerge =>
        /\ Len(df) = Len(artworks)
        /\ \A i \in Rows(df) :
              df[i].ArtistID \notin ArtistIds =>
                  isna(df[i].Gender) /\ isna(df[i].BirthYear) /\ isna(df[i].Nationality)

\* ===================================================================== C4
\* C4: an artwork whose identifier matches no artist is counted in every cut
\* whose key it has: the total of its acquisition year counts its artist, and
\* the total of its creation year (artwork level) counts the artwork.
C4_UnmatchedArtworksAreCounted ==
    pc = "done" =>
        \A i \in Rows(df) :
            df[i].ArtistID \notin ArtistIds =>
                /\ ~isna(df[i].year_acq) =>
                      TotalAt(gender_by_year_acq, df[i].year_acq.v) =
                          Cardinality({df[k].ArtistID :
                              k \in {n \in Rows(df) : df[n].year_acq = df[i].year_acq}})
                /\ ~isna(df[i].year_created) =>
                      TotalAt(gender_by_creation_year_artworks, df[i].year_created.v) =
                          Cardinality({n \in Rows(df) : df[n].year_created = df[i].year_created})

\* ===================================================================== C5
\* the first entry, trimmed, of the comma-separated text of a cell
FirstEntry(x) ==
    LET s == PyStr(x)
        commas == {i \in 1..Len(s) : s[i] = ","}
        stop == IF commas = {} THEN Len(s) + 1 ELSE Min(commas)
    IN  Strip(SubSeq(s, 1, stop - 1))

\* C5: the identifier of every artist and of every artwork is normalised to
\* the trimmed first entry of its list, and an artwork and an artist whose raw
\* identifiers have the same first entry are joined.
C5_SameNormalisationOnBothSides ==
    /\ pc \in AfterIds =>
          /\ \A i \in Rows(artists) : artists[i].ArtistID.v = FirstEntry(ARTISTS_CSV[i].ArtistID)
          /\ \A j \in Rows(artworks) :
                artworks[j].ArtistID.v = FirstEntry(ARTWORKS_CSV[j].ArtistID)
    /\ pc \in AfterMerge =>
          \A i \in Rows(ARTISTS_CSV), j \in Rows(ARTWORKS_CSV) :
              FirstEntry(ARTISTS_CSV[i].ArtistID) = FirstEntry(ARTWORKS_CSV[j].ArtistID) =>
                  \E k \in Rows(df) : /\ df[k].ArtistID = artworks[j].ArtistID
                                      /\ ~isna(df[k].Gender)

\* ===================================================================== C8
\* C8: in gender_by_dept_acq every artist with an artwork acquired in year y
\* that has a Department counts once, in one row of year y: for each year and
\* gender the counts over the departments add up to the number of such artists.
C8_DepartmentDroppedBeforeDedup ==
    pc \in AfterAcqDept =>
        \A y \in AcqYears, g \in Genders :
            SumCount({x \in gender_by_dept_acq : x.key[1] = y /\ x.Gender = g}) =
                Cardinality({A \in ArtistIds :
                    /\ GenderOf(A) = g
                    /\ \E j \in AcquiredIn(A, y) : ~isna(artworks[j].Department)})

\* ===================================================================== C9
Nats == {artists[i].Nationality.v : i \in {k \in Rows(artists) : ~isna(artists[k].Nationality)}}
FemaleAt(n) == {x \in female_geo : x.Nationality = n}
\* C9: female_geo shows, for every nationality, the number of Female artists
\* of that nationality with at least one artwork that has an acquisition year,
\* whatever the Department of those artworks.
C9_GeoIgnoresDepartment ==
    pc = "done" =>
        \A n \in Nats :
            LET women == {A \in ArtistIds :
                             /\ GenderOf(A) = Female
                             /\ FirstRecord(A).Nationality = Str(n)
                             /\ \E y \in AcqYears : AcquiredIn(A, y) # {}}
            IN  IF women = {} THEN FemaleAt(n) = {}
                ELSE FemaleAt(n) = {[Nationality |-> n, female_artists |-> Cardinality(women)]}

\* ==================================================================== C10
BirthYears == {artists[i].BirthYear.v : i \in {k \in Rows(artists) : ~isna(artists[k].BirthYear)}}
\* the identifiers that have a birth year, and the first record of each that has one
People == {artists[i].ArtistID : i \in {k \in Rows(artists) : ~isna(artists[k].BirthYear)}}
BornRecord(A) ==
    artists[Min({i \in Rows(artists) : artists[i].ArtistID = A /\ ~isna(artists[i].BirthYear)})]
\* C10: the birth cuts count people: every distinct identifier with a birth
\* year counts once, so that the count of (birth year, gender) is the number of
\* identifiers with that birth year and gender; and the count of
\* (decade, gender) is the sum of the counts of the decade's years.
C10_BirthCutsCountPeople ==
    pc \in AfterBirth =>
        /\ \A b \in BirthYears, g \in Genders :
              CountAt(gender_by_birth_year, b, g) =
                  Cardinality({A \in People : /\ BornRecord(A).BirthYear.v = b
                                              /\ BornRecord(A).Gender.v = g})
        /\ \A x \in gender_by_birth_decade :
              x.count = SumCount({z \in gender_by_birth_year :
                                    /\ z.Gender = x.Gender
                                    /\ z.key[1] \in x.key[1]..(x.key[1] + 9)})

====
